---- MODULE Spec2Model ----
(***************************************************************************)
(* Model of linopy/io.py: the LP text export (to_file and the four section *)
(* writers it calls) and the netcdf snapshot (to_netcdf / read_netcdf).    *)
(*                                                                         *)
(* A table entry is nullable: NaN is the null marker, <<x>> holds x.       *)
(* Floats are carried in millionths (the six decimals "%+f" prints), so    *)
(* 2500000 stands for 2.5.  Strings are TLA+ strings; a sink write is one  *)
(* record of the file's write log, its text the string handed to write().  *)
(***************************************************************************)
EXTENDS Integers, Sequences, FiniteSets, TLC

VARIABLES
    m,        \* the model handed to to_file (read-only)
    disk,     \* the file at path fn: [exists, data], data the write log
    f,        \* the sink handle: "none", "open" or "closed"
    pc,       \* position of to_file
    sec,      \* index in SectionOrder of the section being written
    tpos,     \* per chunk task: number of cells of its chunk written so far
    tstat,    \* per chunk task: "run", "done" or "dead" (it raised)
    raised,   \* the exception to_file ends with: "none", "OSError", "TypeError"
    runs,     \* number of to_file calls started on this model and path
    first,    \* bytes of the file after the first completed export
    snap_m,   \* the model handed to to_netcdf
    all_ds,   \* the container at the netcdf path
    loaded,   \* the model read_netcdf returned
    rstat,    \* position of the snapshot round trip
    tampered  \* the container is not the one to_netcdf wrote

ncvars == <<snap_m, all_ds, loaded, rstat, tampered>>

vars == <<m, disk, f, pc, sec, tpos, tstat, raised, runs, first,
          snap_m, all_ds, loaded, rstat, tampered>>

----------------------------------------------------------------------------
(* Bounds of the model *)

MaxRows == 2       \* rows of the constraint table
MaxChunk == 2      \* largest chunk size the tables are chunked with

(* Program constants *)

Sentinel == -1
Micro == 1000000

----------------------------------------------------------------------------
(* Nullable values and the formatting pipeline *)

NaN == <<>>

Val(x) == <<x>>

notnull(da) == da # NaN

fillna(da, d) == IF da = NaN THEN d ELSE da[1]

Abs(n) == IF n < 0 THEN -n ELSE n

Pow10(k) == IF k = 0 THEN 1 ELSE IF k = 1 THEN 10 ELSE IF k = 2 THEN 100
            ELSE IF k = 3 THEN 1000 ELSE IF k = 4 THEN 10000 ELSE 100000

(* the six fractional digits of "%f" *)
FracDigits(n) ==
    LET d(k) == ToString((n \div Pow10(k)) % 10)
    IN  d(5) \o d(4) \o d(3) \o d(2) \o d(1) \o d(0)

(* "%+f" % f on f.fillna(0) *)
to_float_str(da) ==
    LET v == fillna(da, 0)
    IN  (IF v < 0 THEN "-" ELSE "+") \o ToString(Abs(v) \div Micro)
            \o "." \o FracDigits(Abs(v) % Micro)

(* "%d" % d on d.fillna(0) *)
to_int_str(da) == ToString(fillna(da, 0))

(* np.add(str, nan, dtype=object) raises TypeError: an operand that is null *)
TypeErrorIn(arraylist) == \E i \in 1..Len(arraylist) : arraylist[i] = NaN

(* reduce(np.add, arraylist, ""): left-to-right concatenation *)
join_str_arrays(arraylist) ==
    LET acc[i \in 0..Len(arraylist)] ==
            IF i = 0 THEN "" ELSE acc[i - 1] \o arraylist[i][1]
    IN  acc[Len(arraylist)]

(* DataArray.where(cond, other) on one element *)
where(cond, s, other) == IF cond THEN s ELSE other

----------------------------------------------------------------------------
(* The string table of each section *)

(* faulty variant: the mask forgets the sentinel label *)
term_nonnans_no_label(cell) == notnull(cell.coef)

(* nonnans = coef.notnull() & (var != -1) *)
term_nonnans(cell) == notnull(cell.coef) /\ cell.var # Val(Sentinel)

term_str(cell) ==
    where(term_nonnans(cell),
          join_str_arrays(<<Val(to_float_str(cell.coef)), Val(" x"),
                            Val(to_int_str(cell.var)), Val("\n")>>),
          "")

objective_str(mm) == [i \in 1..Len(mm.objective) |-> term_str(mm.objective[i])]

(* .reduce(np.sum, term_names): concatenation along the term axis *)
lhs_str(row) ==
    LET acc[t \in 0..Len(row.terms)] ==
            IF t = 0 THEN "" ELSE acc[t - 1] \o term_str(row.terms[t])
    IN  acc[Len(row.terms)]

(* nonnans.any(term_names) & (con != -1) & sign.notnull() & rhs.notnull() *)
row_nonnans(row) ==
    /\ \E t \in 1..Len(row.terms) : term_nonnans(row.terms[t])
    /\ row.con # Val(Sentinel)
    /\ notnull(row.sign)
    /\ notnull(row.rhs)

row_join(row) ==
    <<Val("c"), Val(to_int_str(row.con)), Val(": \n"), Val(lhs_str(row)),
      row.sign, Val("\n"), Val(to_float_str(row.rhs)), Val("\n\n")>>

constraints_str(mm) ==
    [i \in 1..Len(mm.constraints) |->
        where(row_nonnans(mm.constraints[i]),
              join_str_arrays(row_join(mm.constraints[i])), "")]

bounds_nonnans(b) == notnull(b.lb) /\ notnull(b.ub) /\ b.v # Val(Sentinel)

bounds_str(mm) ==
    [i \in 1..Len(mm.bounds) |->
        where(bounds_nonnans(mm.bounds[i]),
              join_str_arrays(<<Val(to_float_str(mm.bounds[i].lb)), Val(" <= x"),
                                Val(to_int_str(mm.bounds[i].v)), Val(" <= "),
                                Val(to_float_str(mm.bounds[i].ub)), Val("\n")>>),
              "")]

binaries_str(mm) ==
    [i \in 1..Len(mm.binaries) |->
        where(mm.binaries[i] # Val(Sentinel),
              join_str_arrays(<<Val("x"), Val(to_int_str(mm.binaries[i])), Val("\n")>>),
              "")]

(* faulty variant: bounds_to_file called before constraints_to_file *)
SectionOrderSwapped == <<"objective", "bounds", "constraints", "binaries">>

(* the calls of to_file, in order *)
SectionOrder == <<"objective", "constraints", "bounds", "binaries">>

Header(s) ==
    CASE s = "objective"   -> "min\nobj:\n"
      [] s = "constraints" -> "\n\ns.t.\n\n"
      [] s = "bounds"      -> "\nbounds\n"
      [] s = "binaries"    -> "\nbinary\n"

SectionStr(mm, s) ==
    CASE s = "objective"   -> objective_str(mm)
      [] s = "constraints" -> constraints_str(mm)
      [] s = "bounds"      -> bounds_str(mm)
      [] s = "binaries"    -> binaries_str(mm)

(* evaluating cell i of the section's string table raises *)
CellRaises(mm, s, i) ==
    s = "constraints" /\ TypeErrorIn(row_join(mm.constraints[i]))

NCells(mm, s) ==
    CASE s = "objective"   -> Len(mm.objective)
      [] s = "constraints" -> Len(mm.constraints)
      [] s = "bounds"      -> Len(mm.bounds)
      [] s = "binaries"    -> Len(mm.binaries)

----------------------------------------------------------------------------
(* Chunked evaluation (dask="parallelized"): one task per chunk; an array   *)
(* that is not chunked is a single chunk.                                   *)

NChunks(n, c) == (n + c - 1) \div c

ChunkOf(i, c) == ((i - 1) \div c) + 1

ChunkCells(n, c, k) == {i \in 1..n : ChunkOf(i, c) = k}

ChunkLen(n, c, k) == Cardinality(ChunkCells(n, c, k))

----------------------------------------------------------------------------
(* Models handed to to_file *)

CellValid == [coef |-> Val(2500000), var |-> Val(1)]
CellZero == [coef |-> Val(0), var |-> Val(0)]
CellNullCoef == [coef |-> NaN, var |-> Val(1)]
CellSentinel == [coef |-> Val(-1000000), var |-> Val(Sentinel)]

RowKinds == {"ok", "empty", "pad", "nosign", "norhs"}

(* a constraint row of the given kind; each kind but "ok" fails exactly    *)
(* one conjunct of the row mask; the term axis is three cells wide and the *)
(* rows are padded with sentinel cells                                     *)
MkRow(kind, label) ==
    [con   |-> IF kind = "pad" THEN Val(Sentinel) ELSE Val(label),
     sign  |-> IF kind = "nosign" THEN NaN
               ELSE IF label = 0 THEN Val(">=") ELSE Val("<="),
     rhs   |-> IF kind = "norhs" THEN NaN
               ELSE IF label = 0 THEN Val(-500000) ELSE Val(10000000),
     terms |-> IF kind = "empty" THEN <<CellNullCoef, CellSentinel, CellSentinel>>
               ELSE <<CellValid, CellSentinel, CellZero>>]

ConstraintTables ==
    { [i \in 1..MaxRows |->
          MkRow(kinds[i], IF asc THEN i - 1 ELSE MaxRows - i)] :
      kinds \in [1..MaxRows -> RowKinds], asc \in BOOLEAN }

(* the objective with the variables it ranges over: either every variable *)
(* is present, or the tables hold only padding                            *)
VariableSides ==
    { [objective |-> <<CellValid, CellZero>>,
       bounds    |-> << [v |-> Val(0), lb |-> Val(0), ub |-> Val(10000000)] >>,
       binaries  |-> << Val(1) >>],
      [objective |-> <<CellSentinel, CellNullCoef>>,
       bounds    |-> << [v |-> Val(Sentinel), lb |-> Val(0), ub |-> NaN] >>,
       binaries  |-> << Val(Sentinel) >>] }

Models ==
    { [objective |-> v.objective, constraints |-> c, bounds |-> v.bounds,
       binaries |-> v.binaries, chunk |-> k] :
      v \in VariableSides, c \in ConstraintTables, k \in 1..MaxChunk }

StaleFile == [exists |-> TRUE,
              data |-> << [sec |-> "stale", idx |-> 0, text |-> "stale\n"] >>]

NoFile == [exists |-> FALSE, data |-> << >>]

(* the bytes of a file: its writes, concatenated *)
Bytes(data) ==
    LET acc[i \in 0..Len(data)] ==
            IF i = 0 THEN "" ELSE acc[i - 1] \o data[i].text
    IN  acc[Len(data)]

----------------------------------------------------------------------------
(* to_file *)

Init ==
    /\ m \in Models
    /\ disk \in {NoFile, StaleFile}
    /\ f = "none"
    /\ pc = "start"
    /\ sec = 1
    /\ tpos = << >>
    /\ tstat = << >>
    /\ raised = "none"
    /\ runs = 1
    /\ first = ""
    /\ snap_m = << >>
    /\ all_ds = << >>
    /\ loaded = << >>
    /\ rstat = "unused"
    /\ tampered = FALSE

CurSec == SectionOrder[sec]

(* if os.path.exists(fn): os.remove(fn) *)
Remove ==
    /\ pc = "start"
    /\ disk' = IF disk.exists THEN NoFile ELSE disk
    /\ pc' = "open"
    /\ UNCHANGED <<m, f, sec, tpos, tstat, raised, runs, first>>
    /\ UNCHANGED ncvars

(* open(fn, mode="w"): creates or truncates *)
Open ==
    /\ pc = "open"
    /\ disk' = [exists |-> TRUE, data |-> << >>]
    /\ f' = "open"
    /\ sec' = 1
    /\ pc' = "header"
    /\ UNCHANGED <<m, tpos, tstat, raised, runs, first>>
    /\ UNCHANGED ncvars

(* open raises: no sink was acquired *)
OpenFails ==
    /\ pc = "open"
    /\ raised' = "OSError"
    /\ pc' = "raised"
    /\ UNCHANGED <<m, disk, f, sec, tpos, tstat, runs, first>>
    /\ UNCHANGED ncvars

(* fn.write(x): the text is appended to the file *)
write(d, rec) == [d EXCEPT !.data = Append(d.data, rec)]

(* f.write(header) at the top of each section writer *)
WriteHeader ==
    /\ pc = "header"
    /\ disk' = write(disk, [sec |-> CurSec, idx |-> 0, text |-> Header(CurSec)])
    /\ tpos' = [k \in 1..NChunks(NCells(m, CurSec), m.chunk) |-> 0]
    /\ tstat' = [k \in 1..NChunks(NCells(m, CurSec), m.chunk) |-> "run"]
    /\ pc' = "flush"
    /\ UNCHANGED <<m, f, sec, raised, runs, first>>
    /\ UNCHANGED ncvars

(* a write of the main thread raises: the with block closes the sink *)
MainWriteFails ==
    /\ pc \in {"header", "end"}
    /\ raised' = "OSError"
    /\ f' = "closed"
    /\ pc' = "raised"
    /\ UNCHANGED <<m, disk, sec, tpos, tstat, runs, first>>
    /\ UNCHANGED ncvars

(* the cell a chunk task writes next *)
NextCell(k) == (k - 1) * m.chunk + tpos[k] + 1

ChunkRaises(k) ==
    \E i \in ChunkCells(NCells(m, CurSec), m.chunk, k) : CellRaises(m, CurSec, i)

(* str_array_to_file: the task of chunk k evaluates its strings, then     *)
(* writes them cell by cell                                               *)
TaskWrite(k) ==
    /\ pc = "flush"
    /\ tstat[k] = "run"
    /\ ~ChunkRaises(k)
    /\ disk' = write(disk, [sec |-> CurSec, idx |-> NextCell(k),
                             text |-> SectionStr(m, CurSec)[NextCell(k)]])
    /\ tpos' = [tpos EXCEPT ![k] = @ + 1]
    /\ tstat' = [tstat EXCEPT ![k] =
                    IF tpos[k] + 1 = ChunkLen(NCells(m, CurSec), m.chunk, k)
                    THEN "done" ELSE "run"]
    /\ UNCHANGED <<m, f, pc, sec, raised, runs, first>>
    /\ UNCHANGED ncvars

(* the task's evaluation raises TypeError before it writes anything *)
TaskTypeError(k) ==
    /\ pc = "flush"
    /\ tstat[k] = "run"
    /\ ChunkRaises(k)
    /\ tstat' = [tstat EXCEPT ![k] = "dead"]
    /\ raised' = IF raised = "none" THEN "TypeError" ELSE raised
    /\ UNCHANGED <<m, disk, f, pc, sec, tpos, runs, first>>
    /\ UNCHANGED ncvars

(* fn.write(x) raises in the task *)
TaskWriteFails(k) ==
    /\ pc = "flush"
    /\ tstat[k] = "run"
    /\ ~ChunkRaises(k)
    /\ tstat' = [tstat EXCEPT ![k] = "dead"]
    /\ raised' = IF raised = "none" THEN "OSError" ELSE raised
    /\ UNCHANGED <<m, disk, f, pc, sec, tpos, runs, first>>
    /\ UNCHANGED ncvars

ComputeReturns == \A k \in DOMAIN tstat : tstat[k] = "done"

(* .compute() returns once every chunk task is done; the next call follows *)
ComputeDone ==
    /\ pc = "flush"
    /\ raised = "none"
    /\ ComputeReturns
    /\ IF sec = Len(SectionOrder)
       THEN pc' = "end" /\ sec' = sec
       ELSE pc' = "header" /\ sec' = sec + 1
    /\ UNCHANGED <<m, disk, f, tpos, tstat, raised, runs, first>>
    /\ UNCHANGED ncvars

(* .compute() re-raises a task's exception; the with block closes the sink *)
ComputeRaises ==
    /\ pc = "flush"
    /\ raised # "none"
    /\ f' = "closed"
    /\ pc' = "raised"
    /\ UNCHANGED <<m, disk, sec, tpos, tstat, raised, runs, first>>
    /\ UNCHANGED ncvars

(* f.write("end\n") at the end of binaries_to_file *)
WriteEnd ==
    /\ pc = "end"
    /\ disk' = write(disk, [sec |-> "end", idx |-> 0, text |-> "end\n"])
    /\ pc' = "exit"
    /\ UNCHANGED <<m, f, sec, tpos, tstat, raised, runs, first>>
    /\ UNCHANGED ncvars

(* leaving the with block *)
Close ==
    /\ pc = "exit"
    /\ f' = "closed"
    /\ pc' = "done"
    /\ UNCHANGED <<m, disk, sec, tpos, tstat, raised, runs, first>>
    /\ UNCHANGED ncvars

(* the caller exports the same model to the same path again *)
ExportAgain ==
    /\ pc = "done"
    /\ runs = 1
    /\ runs' = runs + 1
    /\ first' = IF runs = 1 THEN Bytes(disk.data) ELSE first
    /\ f' = "none"
    /\ pc' = "start"
    /\ UNCHANGED <<m, disk, sec, tpos, tstat, raised>>
    /\ UNCHANGED ncvars

Next ==
    \/ Remove
    \/ Open
    \/ OpenFails
    \/ WriteHeader
    \/ MainWriteFails
    \/ \E k \in DOMAIN tstat : TaskWrite(k)
    \/ \E k \in DOMAIN tstat : TaskTypeError(k)
    \/ \E k \in DOMAIN tstat : TaskWriteFails(k)
    \/ ComputeDone
    \/ ComputeRaises
    \/ WriteEnd
    \/ Close
    \/ ExportAgain

Spec == Init /\ [][Next]_vars

----------------------------------------------------------------------------
(* The netcdf snapshot.  A field name is a sequence of name pieces, the    *)
(* separator "-" a piece of its own; a DataArray is [dim, val], val a      *)
(* function from the coordinates along dim to nullable values; a Dataset   *)
(* is a function from field names to DataArrays.                           *)

(* the persisted categories and scalar attributes (linopy/model.py) *)
array_attrs == <<"variables", "bounds", "binaries", "constraints", "objective">>

obj_attrs == <<"sense", "name">>

Range(seq) == {seq[i] : i \in 1..Len(seq)}

NoVars == [n \in {} |-> NaN]

DA(dim, coords) == [dim |-> dim, val |-> [c \in coords |-> Val(c + 1)]]

Datasets ==
    { NoVars,
      [n \in {<<"x">>} |-> DA("dim_0", {0})],
      [n \in {<<"x">>} |-> DA("dim_0", {0, 1})],
      [n \in {<<"x">>, <<"x", "-", "y">>} |-> DA("dim_1", {0})] }

Objectives ==
    { [n \in {<<"coeffs">>, <<"vars">>} |->
          [dim |-> "_term",
           val |-> [c \in {0, 1} |-> IF n = <<"coeffs">> THEN Val(2500000) ELSE Val(c)]]],
      [n \in {<<"coeffs">>, <<"vars">>} |->
          [dim |-> "_term",
           val |-> [c \in {0, 1} |-> IF n = <<"coeffs">> THEN NaN ELSE Val(Sentinel)]]] }

(* the objective is rebuilt as a term table from its raw fields *)
LinearExpression(ds) == [kind |-> "LinearExpression", vars |-> ds.vars]

Dataset(vs) == [kind |-> "Dataset", vars |-> vs]

SnapshotModels ==
    { [cats  |-> [c \in Range(array_attrs) |->
                     IF c = "objective" THEN LinearExpression(Dataset(o))
                     ELSE Dataset(d[c])],
       attrs |-> [k \in Range(obj_attrs) |-> IF k = "sense" THEN "min" ELSE nm]] :
      o \in Objectives,
      d \in [Range(array_attrs) \ {"objective"} -> Datasets],
      nm \in {"a", "b"} }

(* ds.rename({v: attr + "-" + v for v in ds}) *)
get_and_rename(mm, attr) ==
    LET ds == mm.cats[attr].vars
    IN  [k \in {<<attr, "-">> \o v : v \in DOMAIN ds} |->
            ds[CHOOSE v \in DOMAIN ds : <<attr, "-">> \o v = k]]

(* xr.merge: one flat Dataset; the arrays are aligned by an outer join of  *)
(* the coordinates of each dimension, cells a field did not hold are NaN   *)
merge(objects) ==
    LET names == UNION {DOMAIN objects[i] : i \in 1..Len(objects)}
        arr(n) == objects[CHOOSE i \in 1..Len(objects) : n \in DOMAIN objects[i]][n]
        coords(dim) == UNION {DOMAIN arr(n).val : n \in {x \in names : arr(x).dim = dim}}
    IN  [n \in names |->
            [dim |-> arr(n).dim,
             val |-> [c \in coords(arr(n).dim) |->
                         IF c \in DOMAIN arr(n).val THEN arr(n).val[c] ELSE NaN]]]

(* the container to_netcdf writes *)
to_netcdf(mm) ==
    [vars  |-> merge([i \in 1..Len(array_attrs) |-> get_and_rename(mm, array_attrs[i])]),
     attrs |-> [k \in Range(obj_attrs) |-> mm.attrs[k]]]

(* k.startswith(attr + "-") *)
startswith(k, attr) == Len(k) >= 2 /\ k[1] = attr /\ k[2] = "-"

(* all_ds[keys].rename({k: k[len(attr) + 1:] for k in keys}) *)
select_and_strip(container, attr) ==
    LET keys == {k \in DOMAIN container.vars : startswith(k, attr)}
    IN  [v \in {SubSeq(k, 3, Len(k)) : k \in keys} |->
            container.vars[CHOOSE k \in keys : SubSeq(k, 3, Len(k)) = v]]

(* faulty variant: ds.attrs.pop(k, None) never raises *)
pop_never_raises(attrs, k) == FALSE

(* ds.attrs.pop(k) raises KeyError *)
pop_raises(attrs, k) == k \notin DOMAIN attrs

(* the model read_netcdf builds from a container *)
read_model(container) ==
    [cats  |-> [c \in Range(array_attrs) |->
                   IF c = "objective"
                   THEN LinearExpression(Dataset(select_and_strip(container, c)))
                   ELSE Dataset(select_and_strip(container, c))],
     attrs |-> [k \in Range(obj_attrs) |->
                   IF k \in DOMAIN container.attrs THEN container.attrs[k] ELSE "None"]]

(* the objective's raw fields are not in the container *)
ObjectiveMissing(container) == select_and_strip(container, "objective") = NoVars

NoModel == << >>

InitNetcdf ==
    /\ snap_m \in SnapshotModels
    /\ all_ds = << >>
    /\ loaded = NoModel
    /\ rstat = "init"
    /\ tampered = FALSE
    /\ m = << >>
    /\ disk = NoFile
    /\ f = "none"
    /\ pc = "unused"
    /\ sec = 1
    /\ tpos = << >>
    /\ tstat = << >>
    /\ raised = "none"
    /\ runs = 1
    /\ first = ""

xvars == <<m, disk, f, pc, sec, tpos, tstat, raised, runs, first>>

ToNetcdf ==
    /\ rstat = "init"
    /\ all_ds' = to_netcdf(snap_m)
    /\ rstat' = "written"
    /\ UNCHANGED <<snap_m, loaded, tampered>>
    /\ UNCHANGED xvars

(* a container that lacks every field of one category *)
DropCategory(c) ==
    /\ rstat = "written"
    /\ ~tampered
    /\ all_ds' = [all_ds EXCEPT !.vars =
                     [k \in {x \in DOMAIN all_ds.vars : ~startswith(x, c)} |-> all_ds.vars[k]]]
    /\ tampered' = TRUE
    /\ UNCHANGED <<snap_m, loaded, rstat>>
    /\ UNCHANGED xvars

(* a container that lacks one scalar attribute *)
DropAttr(a) ==
    /\ rstat = "written"
    /\ ~tampered
    /\ all_ds' = [all_ds EXCEPT !.attrs =
                     [k \in DOMAIN all_ds.attrs \ {a} |-> all_ds.attrs[k]]]
    /\ tampered' = TRUE
    /\ UNCHANGED <<snap_m, loaded, rstat>>
    /\ UNCHANGED xvars

(* read_netcdf returns the model *)
ReadNetcdf ==
    /\ rstat = "written"
    /\ \A i \in 1..Len(obj_attrs) : ~pop_raises(all_ds.attrs, obj_attrs[i])
    /\ loaded' = read_model(all_ds)
    /\ rstat' = "returned"
    /\ UNCHANGED <<snap_m, all_ds, tampered>>
    /\ UNCHANGED xvars

(* ds.attrs.pop(k) raises KeyError: nothing is returned *)
ReadNetcdfKeyError ==
    /\ rstat = "written"
    /\ \E i \in 1..Len(obj_attrs) : pop_raises(all_ds.attrs, obj_attrs[i])
    /\ rstat' = "KeyError"
    /\ UNCHANGED <<snap_m, all_ds, loaded, tampered>>
    /\ UNCHANGED xvars

(* LinearExpression may reject a dataset without coeffs and vars *)
ReadNetcdfObjectiveError ==
    /\ rstat = "written"
    /\ ObjectiveMissing(all_ds)
    /\ rstat' = "ObjectiveError"
    /\ UNCHANGED <<snap_m, all_ds, loaded, tampered>>
    /\ UNCHANGED xvars

NextNetcdf ==
    \/ ToNetcdf
    \/ \E c \in Range(array_attrs) : DropCategory(c)
    \/ \E a \in Range(obj_attrs) : DropAttr(a)
    \/ ReadNetcdf
    \/ ReadNetcdfKeyError
    \/ ReadNetcdfObjectiveError

SpecNetcdf == InitNetcdf /\ [][NextNetcdf]_vars

----------------------------------------------------------------------------
(* Vocabulary of the properties *)

Rank(s) ==
    CASE s = "objective"   -> 1
      [] s = "constraints" -> 2
      [] s = "bounds"      -> 3
      [] s = "binaries"    -> 4
      [] s = "end"         -> 5
      [] OTHER             -> 0

(* the writes the current to_file call has made *)
ExportWrites == IF f = "none" THEN << >> ELSE disk.data

(* the section's writer has returned in the current call *)
Flushed(s) ==
    /\ f # "none"
    /\ \/ pc \in {"end", "exit", "done"}
       \/ pc \in {"header", "flush", "raised"} /\ Rank(s) < sec

(* the texts written for cell i of section s, in file order *)
WritesOf(s, i) ==
    SelectSeq(ExportWrites, LAMBDA r : r.sec = s /\ r.idx = i)

(* validity as the data model states it *)
ValidCell(cell) == cell.coef # NaN /\ cell.var # <<-1>>

ValidRow(row) ==
    /\ \E t \in 1..Len(row.terms) : ValidCell(row.terms[t])
    /\ row.con # <<-1>>
    /\ row.sign # NaN
    /\ row.rhs # NaN

TermLine(cell) ==
    to_float_str(cell.coef) \o " x" \o to_int_str(cell.var) \o "\n"

(* the term lines of the valid cells only, in term order *)
ValidLines(terms) ==
    LET kept == SelectSeq(terms, ValidCell)
        acc[t \in 0..Len(kept)] ==
            IF t = 0 THEN "" ELSE acc[t - 1] \o TermLine(kept[t])
    IN  acc[Len(kept)]

Block(row) ==
    "c" \o to_int_str(row.con) \o ": \n" \o ValidLines(row.terms)
        \o row.sign[1] \o "\n" \o to_float_str(row.rhs) \o "\n\n"

HeaderTexts == <<"min\nobj:\n", "\n\ns.t.\n\n", "\nbounds\n", "\nbinary\n", "end\n">>

IsHeaderText(t) == \E h \in 1..Len(HeaderTexts) : HeaderTexts[h] = t

TextsOf(data) == [i \in 1..Len(data) |-> data[i].text]

----------------------------------------------------------------------------
(* C1: the writes of to_file come in the fixed section order: objective    *)
(* header, objective lines, s.t. header, constraint blocks, bounds header, *)
(* bounds lines, binary header, binary lines, "end"; no write of a section *)
(* follows a write of a later section, every section starts with its own   *)
(* header, no header is written twice, and a completed export holds the    *)
(* five headers once each, in order.                                       *)
C1_SectionsInOrder ==
    LET d == ExportWrites
    IN  /\ \A i, j \in 1..Len(d) : i < j => Rank(d[i].sec) <= Rank(d[j].sec)
        /\ \A i \in 1..Len(d) :
              (d[i].idx = 0) <=> (\A j \in 1..(i - 1) : d[j].sec # d[i].sec)
        /\ \A i \in 1..Len(d) :
              d[i].idx = 0 => d[i].text = HeaderTexts[Rank(d[i].sec)]
        /\ pc = "done" => SelectSeq(TextsOf(d), IsHeaderText) = HeaderTexts

(* a completed export whose sections were written by two chunk tasks each *)
C1_Witness ==
    /\ pc = "done"
    /\ m.chunk = 1
    /\ Len(disk.data) = 5 + Len(m.objective) + Len(m.constraints)
                          + Len(m.bounds) + Len(m.binaries)

C3_BlockIffRowValid ==
    (pc \in {"done", "raised"} /\ raised # "OSError") =>
        \A i \in 1..Len(m.constraints) :
            (\E w \in 1..Len(disk.data) :
                /\ disk.data[w].sec = "constraints"
                /\ disk.data[w].idx = i
                /\ disk.data[w].text # "")
            <=> ValidRow(m.constraints[i])

(* C4: constraint blocks appear in ascending order of constraint label,    *)
(* and within a block the valid term lines in ascending term order.        *)
C4_AscendingLabelOrder ==
    LET d == ExportWrites
        IsBlock(w) == d[w].sec = "constraints" /\ d[w].idx > 0 /\ d[w].text # ""
    IN  /\ \A v, w \in 1..Len(d) :
              (v < w /\ IsBlock(v) /\ IsBlock(w)) =>
                  m.constraints[d[v].idx].con[1] < m.constraints[d[w].idx].con[1]
        /\ \A w \in 1..Len(d) :
              IsBlock(w) => d[w].text = Block(m.constraints[d[w].idx])

(* C6: a second completed export of the same model to the same path leaves *)
(* the same bytes as the first, and nothing of a file that was there.      *)
C6_ExportTwiceSameBytes ==
    pc = "done" =>
        /\ runs >= 2 => Bytes(disk.data) = first
        /\ \A w \in 1..Len(disk.data) : disk.data[w].sec # "stale"

(* C7: null coefficients, sentinel labels, a null sign and a null rhs are  *)
(* skipped silently: to_file ends with an exception only when the sink     *)
(* failed.                                                                 *)
C7_NullsRaiseNothing ==
    pc = "raised" => raised = "OSError"

(* C9: a section written by several chunk tasks holds the bytes sequential *)
(* evaluation writes: every cell once, in the table's order.               *)
C9_ChunkedSameAsSequential ==
    \A h \in 1..Len(SectionOrder) :
        LET s == SectionOrder[h]
            w == SelectSeq(ExportWrites, LAMBDA r : r.sec = s /\ r.idx > 0)
        IN  (Flushed(s) /\ NChunks(NCells(m, s), m.chunk) > 1) =>
                /\ Len(w) = NCells(m, s)
                /\ Bytes(w) = Bytes([i \in 1..NCells(m, s) |->
                                        [text |-> SectionStr(m, s)[i]]])

(* C10: after a write to the sink has failed no further write is made, and *)
(* to_file never ends with the sink open.                                  *)
C10_AbortOnWriteFailure ==
    /\ [][raised = "OSError" => disk' = disk]_vars
    /\ [](pc \in {"done", "raised"} => f # "open")

LacksCategory(container, c) ==
    \A k \in DOMAIN container.vars : ~(Len(k) >= 2 /\ k[1] = c /\ k[2] = "-")

LacksAttr(container) == \E k \in Range(obj_attrs) : k \notin DOMAIN container.attrs

ReadEnded == rstat \in {"returned", "KeyError", "ObjectiveError"}

(* C5: read_netcdf(to_netcdf(m)) is m: every category holds the fields it  *)
(* held, under their names and with their values, and every scalar         *)
(* attribute has its value.                                                *)
C5_RoundTrip ==
    (rstat = "returned" /\ ~tampered) => loaded = snap_m

(* C8: read_netcdf on a container that lacks every field of a category or  *)
(* a scalar attribute fails and returns no model.                          *)
C8_MissingDataRejected ==
    (/\ ReadEnded
     /\ \/ LacksAttr(all_ds)
        \/ \E c \in Range(array_attrs) : LacksCategory(all_ds, c))
    => (rstat # "returned" /\ loaded = NoModel)

(* C8, amended: a container that lacks a scalar attribute fails with       *)
(* KeyError and no model is returned; a container that lacks every field   *)
(* of a category is not rejected for that by read_netcdf: the model        *)
(* returned holds the category empty (only building the objective from an  *)
(* empty category may fail).                                               *)
C8_MissingAttrRejected ==
    /\ (ReadEnded /\ LacksAttr(all_ds)) => (rstat = "KeyError" /\ loaded = NoModel)
    /\ rstat \in {"KeyError", "ObjectiveError"} => loaded = NoModel
    /\ rstat = "KeyError" => LacksAttr(all_ds)
    /\ rstat = "ObjectiveError" => LacksCategory(all_ds, "objective")
    /\ rstat = "returned" =>
          \A c \in Range(array_attrs) :
              LacksCategory(all_ds, c) => loaded.cats[c].vars = NoVars

(* read_netcdf has raised KeyError on a container without the "name" key *)
C8_Witness ==
    /\ rstat = "KeyError"
    /\ tampered
    /\ "name" \notin DOMAIN all_ds.attrs
    /\ loaded = NoModel

====
